---- MODULE Spec2Model ----
(***************************************************************************)
(* process.py: consolidation of captured SSE logs into JSON records.       *)
(*                                                                         *)
(* Spec    process_directory -> process_txt_file -> extract_sse_to_json    *)
(*         over the files of a directory.                                  *)
(* SpecCD  consolidate_deltas applied to a list of parsed entries.         *)
(***************************************************************************)
EXTENDS Naturals, Sequences, FiniteSets

(***************************************************************************)
(* Bounds of the model.                                                    *)
(***************************************************************************)
\* most lines in one log file
MaxLines == 3
\* most files in a directory that holds several
MaxFiles == 2
\* most entries handed to consolidate_deltas
MaxEntries == 3

(***************************************************************************)
(* JSON values as the code sees them.  A member of an object is absent, a  *)
(* string, or a value that is not a string (a number).                     *)
(***************************************************************************)
Absent == [has |-> FALSE, isStr |-> FALSE, s |-> "", n |-> 0]
JStr(x) == [has |-> TRUE, isStr |-> TRUE, s |-> x, n |-> 0]
JNum(k) == [has |-> TRUE, isStr |-> FALSE, s |-> "", n |-> k]

\* dict.get(key, default) with a string default
Get(member, default) == IF member.has THEN member ELSE JStr(default)

\* dict.get(key, default) with a numeric default
GetNum(member, default) == IF member.has THEN member ELSE JNum(default)

\* the value of the "delta" member: kind says absent, not an object, or an object
NoDelta == [kind |-> "absent", type |-> Absent, text |-> Absent,
            thinking |-> Absent, partial_json |-> Absent]
StrDelta == [NoDelta EXCEPT !.kind = "nonobj"]
EmptyDelta == [NoDelta EXCEPT !.kind = "obj"]
Delta(t, txt, th, pj) == [kind |-> "obj", type |-> t, text |-> txt,
                          thinking |-> th, partial_json |-> pj]

\* the text after a line's prefix, as json.loads sees it:
\* json = "invalid" (JSONDecodeError), "nonobj" (a list, number, string or null), "obj" (a dict)
BadDoc == [json |-> "invalid", type |-> Absent, index |-> Absent, delta |-> NoDelta,
           hasMessages |-> FALSE, messages |-> <<>>, hasModel |-> FALSE]
ListDoc == [BadDoc EXCEPT !.json = "nonobj"]
Event(t, idx, d) == [BadDoc EXCEPT !.json = "obj", !.type = t, !.index = idx, !.delta = d]
Frame(idx, d) == Event(JStr("content_block_delta"), JNum(idx), d)
Request(hasMsgs, msgs, hasMdl) ==
    [BadDoc EXCEPT !.json = "obj", !.hasMessages = hasMsgs, !.messages = msgs,
                   !.hasModel = hasMdl]

\* one stripped line of the log: prefix "data" (starts with "data: "),
\* "brace" (starts with "{") or "other" (anything else, the blank line included)
Line(p, d) == [prefix |-> p, doc |-> d]

(***************************************************************************)
(* The lines a log is made of.                                             *)
(***************************************************************************)
L_noise == Line("other", BadDoc)
L_braceBad == Line("brace", BadDoc)
L_noModel == Line("brace", Request(TRUE, <<"m0">>, FALSE))
L_req1 == Line("brace", Request(TRUE, <<"m1">>, TRUE))
L_req2 == Line("brace", Request(TRUE, <<"m2">>, TRUE))
L_dataBad == Line("data", BadDoc)
L_dataList == Line("data", ListDoc)
L_ping == Line("data", Event(JStr("ping"), Absent, Delta(JStr("text_delta"), JStr("Z"), Absent, Absent)))
L_deltaStr == Line("data", Frame(0, StrDelta))
L_textHe == Line("data", Frame(0, Delta(JStr("text_delta"), JStr("He"), Absent, Absent)))
L_textLlo == Line("data", Frame(0, Delta(JStr("text_delta"), JStr("llo"), Absent, Absent)))
L_textX == Line("data", Frame(1, Delta(JStr("text_delta"), JStr("X"), Absent, Absent)))
L_textNum == Line("data", Frame(0, Delta(JStr("text_delta"), JNum(5), Absent, Absent)))
L_textNone == Line("data", Frame(0, Delta(JStr("text_delta"), Absent, JStr("Q"), Absent)))
L_thinkHm == Line("data", Frame(0, Delta(JStr("thinking_delta"), Absent, JStr("Hm"), Absent)))
L_toolA == Line("data", Frame(0, Delta(JStr("input_json_delta"), Absent, Absent, JStr("{\"a\":1}"))))
L_toolB == Line("data", Frame(0, Delta(JStr("input_json_delta"), Absent, Absent, JStr("{\"b\":2}"))))
L_toolPart == Line("data", Frame(0, Delta(JStr("input_json_delta"), Absent, Absent, JStr("{\"a\":"))))
L_toolNone == Line("data", Frame(0, Delta(JStr("input_json_delta"), Absent, Absent, Absent)))
L_cite == Line("data", Frame(0, Delta(JStr("citation_delta"), JStr("C"), Absent, Absent)))

Lines == {L_noise, L_braceBad, L_noModel, L_req1, L_req2, L_dataBad, L_dataList,
          L_ping, L_deltaStr, L_textHe, L_textLlo, L_textX, L_textNum, L_textNone,
          L_thinkHm, L_toolA, L_toolB, L_toolPart, L_toolNone, L_cite}

SeqsUpTo(S, n) == UNION {[1..k -> S] : k \in 0..n}

Logs == SeqsUpTo(Lines, MaxLines)

\* the files of a directory that holds several
SampleLogs == {<<L_req1, L_textHe, L_textLlo>>, <<L_dataList>>, <<>>}

\* a frame whose delta.type is a number
E_numType == Frame(0, Delta(JNum(5), JStr("N"), Absent, Absent))

\* the parsed entries consolidate_deltas is handed
Entries == {ListDoc, L_deltaStr.doc, L_ping.doc, L_textHe.doc, L_textLlo.doc, L_textX.doc,
            L_textNum.doc, L_thinkHm.doc, L_toolA.doc, L_toolNone.doc, L_cite.doc, E_numType}

(***************************************************************************)
(* json.loads on the partial_json strings of the logs.                     *)
(***************************************************************************)
NoJson == [ok |-> FALSE, key |-> "", num |-> 0]
JObject(k, v) == [ok |-> TRUE, key |-> k, num |-> v]

\* json.loads(s): the parsed object, or NoJson where it raises JSONDecodeError
Loads(s) ==
    CASE s = "{}" -> JObject("", 0)
      [] s = "{\"a\":1}" -> JObject("a", 1)
      [] s = "{\"b\":2}" -> JObject("b", 2)
      [] OTHER -> NoJson

(***************************************************************************)
(* extract_sse_to_json: the scan of the data lines.                        *)
(***************************************************************************)
\* the three lists of the scan, and the exception that left it ("none" while it runs)
NoParts == [thinking_parts |-> <<>>, text_parts |-> <<>>, tool_uses |-> <<>>, exc |-> "none"]

\* OnThinking with the fragment put on the wrong list
OnThinking_intoText(acc, delta) ==
    IF delta.type = JStr("thinking_delta")
    THEN [acc EXCEPT !.text_parts = Append(@, Get(delta.thinking, ""))]
    ELSE acc

\* if delta.get("type") == "thinking_delta": thinking_parts.append(delta.get("thinking", ""))
OnThinking(acc, delta) ==
    IF delta.type = JStr("thinking_delta")
    THEN [acc EXCEPT !.thinking_parts = Append(@, Get(delta.thinking, ""))]
    ELSE acc

\* OnText with the fragment put in front of the list
OnText_prepend(acc, delta) ==
    IF delta.type = JStr("text_delta")
    THEN [acc EXCEPT !.text_parts = <<Get(delta.text, "")>> \o @]
    ELSE acc

\* if delta.get("type") == "text_delta": text_parts.append(delta.get("text", ""))
OnText(acc, delta) ==
    IF delta.type = JStr("text_delta")
    THEN [acc EXCEPT !.text_parts = Append(@, Get(delta.text, ""))]
    ELSE acc

\* if delta.get("type") == "input_json_delta": json.loads of partial_json (default "{}"),
\* appended on success; every exception of the attempt is swallowed
OnInputJson(acc, delta) ==
    IF delta.type = JStr("input_json_delta")
    THEN LET pj == Get(delta.partial_json, "{}")
             tool_json == IF pj.isStr THEN Loads(pj.s) ELSE NoJson
         IN  IF tool_json.ok
             THEN [acc EXCEPT !.tool_uses = Append(@, tool_json)]
             ELSE acc
    ELSE acc

\* the body of the loop over content.splitlines() for one line
ScanLine(acc, line) ==
    IF line.prefix # "data" THEN acc
    ELSE LET data == line.doc IN
         IF data.json = "invalid" THEN acc
         ELSE IF data.json = "nonobj" THEN [acc EXCEPT !.exc = "AttributeError"]
         ELSE IF data.type # JStr("content_block_delta") THEN acc
         ELSE LET delta == IF data.delta.kind = "absent" THEN EmptyDelta ELSE data.delta IN
              IF delta.kind = "nonobj" THEN [acc EXCEPT !.exc = "AttributeError"]
              ELSE OnInputJson(OnText(OnThinking(acc, delta), delta), delta)

\* "".join(parts) raises TypeError on an item that is not a string
Joinable(parts) == \A k \in 1..Len(parts) : parts[k].isStr

RECURSIVE Join(_)
Join(parts) == IF parts = <<>> THEN "" ELSE Head(parts).s \o Join(Tail(parts))

\* extract_messages_from_text with the last match winning
RECURSIVE extract_messages_last(_)
extract_messages_last(lines) ==
    IF lines = <<>> THEN <<>>
    ELSE LET line == lines[Len(lines)] IN
         IF line.prefix = "brace" /\ line.doc.json = "obj"
            /\ line.doc.hasMessages /\ line.doc.hasModel
         THEN line.doc.messages
         ELSE extract_messages_last(SubSeq(lines, 1, Len(lines) - 1))

\* extract_messages_from_text: the messages of the first line that starts with "{",
\* parses, and holds both keys
RECURSIVE extract_messages_from_text(_)
extract_messages_from_text(lines) ==
    IF lines = <<>> THEN <<>>
    ELSE LET line == Head(lines) IN
         IF line.prefix = "brace" /\ line.doc.json = "obj"
            /\ line.doc.hasMessages /\ line.doc.hasModel
         THEN line.doc.messages
         ELSE extract_messages_from_text(Tail(lines))

EmptyResult == [message |-> <<>>, thinking |-> "", text |-> "", tool_use |-> <<>>]

\* result["thinking"], result["text"], result["tool_use"], result["message"]: [record, exc]
AssembleRecord(acc, lines) ==
    IF ~Joinable(acc.thinking_parts) \/ ~Joinable(acc.text_parts)
    THEN [record |-> EmptyResult, exc |-> "TypeError"]
    ELSE [record |-> [message |-> extract_messages_from_text(lines),
                      thinking |-> Join(acc.thinking_parts),
                      text |-> Join(acc.text_parts),
                      tool_use |-> acc.tool_uses],
          exc |-> "none"]

RECURSIVE ScanAll(_, _)
ScanAll(acc, lines) ==
    IF lines = <<>> \/ acc.exc # "none" THEN acc
    ELSE ScanAll(ScanLine(acc, Head(lines)), Tail(lines))

\* the record extract_sse_to_json computes from the lines of a log: [record, exc]
extract_sse_to_json(lines) ==
    LET acc == ScanAll(NoParts, lines) IN
    IF acc.exc # "none" THEN [record |-> EmptyResult, exc |-> acc.exc]
    ELSE AssembleRecord(acc, lines)

(***************************************************************************)
(* consolidate_deltas.                                                     *)
(***************************************************************************)
\* position of the key in the groups, 0 when it is not there
KeyIndex(gs, t, idx) ==
    IF \E k \in 1..Len(gs) : gs[k].type = t /\ gs[k].index = idx
    THEN CHOOSE k \in 1..Len(gs) : gs[k].type = t /\ gs[k].index = idx
    ELSE 0

\* the body of the grouping loop for one entry; st = [groups, exc]
GroupEntry(st, entry) ==
    IF entry.json # "obj" THEN [st EXCEPT !.exc = "AttributeError"]
    ELSE LET delta == IF entry.delta.kind = "absent" THEN EmptyDelta ELSE entry.delta IN
         IF delta.kind # "obj" THEN [st EXCEPT !.exc = "AttributeError"]
         ELSE LET delta_type == delta.type
                  index == GetNum(entry.index, 0)
                  k == KeyIndex(st.groups, delta_type, index)
              IN  IF ~delta_type.has THEN st
                  ELSE IF k = 0
                  THEN [st EXCEPT !.groups = Append(@, [type |-> delta_type, index |-> index,
                                                         deltas |-> <<delta>>])]
                  ELSE [st EXCEPT !.groups[k].deltas = Append(@, delta)]

RECURSIVE GroupAll(_, _)
GroupAll(st, entries) ==
    IF entries = <<>> \/ st.exc # "none" THEN st
    ELSE GroupAll(GroupEntry(st, Head(entries)), Tail(entries))

\* position of a delta type in the order of Python's str comparison
StrRank(s) ==
    CASE s = "citation_delta" -> 1
      [] s = "input_json_delta" -> 2
      [] s = "text_delta" -> 3
      [] s = "thinking_delta" -> 4
      [] OTHER -> 0

\* a < b on the tuples (delta_type, index) of two groups whose types are of one kind
KeyLess(a, b) ==
    LET ta == IF a.type.isStr THEN StrRank(a.type.s) ELSE a.type.n
        tb == IF b.type.isStr THEN StrRank(b.type.s) ELSE b.type.n
    IN  ta < tb \/ (ta = tb /\ a.index.n < b.index.n)

\* sorted() compares the keys pairwise: a str against an int raises TypeError
Sortable(gs) ==
    \A a, b \in 1..Len(gs) : gs[a].type.isStr = gs[b].type.isStr

\* sorted(groups.items(), reverse=True)
RECURSIVE SortedReverse(_)
SortedReverse(gs) ==
    IF gs = <<>> THEN <<>>
    ELSE LET m == CHOOSE k \in 1..Len(gs) : \A j \in 1..Len(gs) : ~KeyLess(gs[k], gs[j])
             rest == [j \in 1..(Len(gs) - 1) |-> IF j < m THEN gs[j] ELSE gs[j + 1]]
         IN  <<gs[m]>> \o SortedReverse(rest)

\* content += delta.get(field, "") over the deltas of a group: [content, exc]
RECURSIVE Accumulate(_, _, _)
Accumulate(st, deltas, field) ==
    IF deltas = <<>> \/ st.exc # "none" THEN st
    ELSE LET piece == Get(IF field = "text" THEN Head(deltas).text ELSE Head(deltas).thinking, "")
         IN  IF piece.isStr
             THEN Accumulate([st EXCEPT !.content = @ \o piece.s], Tail(deltas), field)
             ELSE [st EXCEPT !.exc = "TypeError"]

Consolidated(t, c, d) == [type |-> t, content |-> c, delta |-> d]

\* the body of the emitting loop for one group; st = [result, exc]
EmitGroup(st, g) ==
    IF g.type = JStr("text_delta")
    THEN LET acc == Accumulate([content |-> "", exc |-> "none"], g.deltas, "text") IN
         IF acc.exc # "none" THEN [st EXCEPT !.exc = acc.exc]
         ELSE [st EXCEPT !.result = Append(@, Consolidated("text", acc.content, NoDelta))]
    ELSE IF g.type = JStr("thinking_delta")
    THEN LET acc == Accumulate([content |-> "", exc |-> "none"], g.deltas, "thinking") IN
         IF acc.exc # "none" THEN [st EXCEPT !.exc = acc.exc]
         ELSE [st EXCEPT !.result = Append(@, Consolidated("thinking", acc.content, NoDelta))]
    ELSE IF g.type = JStr("input_json_delta")
    THEN [st EXCEPT !.result =
             @ \o [k \in 1..Len(g.deltas) |-> Consolidated("tool_use", "", g.deltas[k])]]
    ELSE st

RECURSIVE EmitAll(_, _)
EmitAll(st, gs) ==
    IF gs = <<>> \/ st.exc # "none" THEN st
    ELSE EmitAll(EmitGroup(st, Head(gs)), Tail(gs))

\* consolidate_deltas(parsed_entries): [result, exc]
consolidate_deltas(entries) ==
    LET grouped == GroupAll([groups |-> <<>>, exc |-> "none"], entries) IN
    IF grouped.exc # "none" THEN [result |-> <<>>, exc |-> grouped.exc]
    ELSE IF ~Sortable(grouped.groups) THEN [result |-> <<>>, exc |-> "TypeError"]
    ELSE LET out == EmitAll([result |-> <<>>, exc |-> "none"], SortedReverse(grouped.groups))
         IN  IF out.exc # "none" THEN [result |-> <<>>, exc |-> out.exc] ELSE out

(***************************************************************************)
(* State.                                                                  *)
(***************************************************************************)
VARIABLES
    dirFiles,        \* the logs of the *.txt files of the directory, in sorted order
    unit,            \* process_directory: position in txt_files
    stats,           \* process_directory: the counters
    pc,              \* where the run is
    ret,             \* what process_txt_file returned for the current unit
    exc,             \* the exception that ended the run ("none" while it runs)
    content,         \* extract_sse_to_json: the lines read
    i,               \* extract_sse_to_json: next line of the scan
    parts,           \* extract_sse_to_json: thinking_parts, text_parts, tool_uses
    result,          \* extract_sse_to_json: the record
    outFile,         \* the current unit's .json file
    writes,          \* how often the current unit's .json file was written
    parsed_entries,  \* consolidate_deltas: the argument
    cd_pc,           \* consolidate_deltas: where the call is
    cd_i,            \* consolidate_deltas: next entry, then next group
    groups,          \* consolidate_deltas: the groups, in insertion order
    cd_result,       \* consolidate_deltas: the list built
    cd_exc           \* consolidate_deltas: the exception that ended the call

fileVars == <<dirFiles, unit, stats, pc, ret, exc, content, i, parts, result, outFile, writes>>
cdVars == <<parsed_entries, cd_pc, cd_i, groups, cd_result, cd_exc>>
vars == <<dirFiles, unit, stats, pc, ret, exc, content, i, parts, result, outFile, writes,
          parsed_entries, cd_pc, cd_i, groups, cd_result, cd_exc>>

NoFile == [exists |-> FALSE, record |-> EmptyResult]

\* consolidate_deltas is not called by process_directory
CDIdle ==
    /\ parsed_entries = <<>>
    /\ cd_pc = "idle"
    /\ cd_i = 1
    /\ groups = <<>>
    /\ cd_result = <<>>
    /\ cd_exc = "none"

\* a directory with one log of any shape, or with up to MaxFiles of the sample logs
Init ==
    /\ dirFiles \in {<<log>> : log \in Logs} \cup SeqsUpTo(SampleLogs, MaxFiles)
    /\ unit = 1
    /\ stats = [success |-> 0, failure |-> 0]
    /\ pc = "for_txt_file"
    /\ ret = "none"
    /\ exc = "none"
    /\ content = <<>>
    /\ i = 1
    /\ parts = NoParts
    /\ result = EmptyResult
    /\ outFile = NoFile
    /\ writes = 0
    /\ CDIdle

(***************************************************************************)
(* process_directory, process_txt_file, extract_sse_to_json.               *)
(***************************************************************************)
\* for txt_file in txt_files: process_txt_file(txt_file) -> extract_sse_to_json(txt_path)
CallProcessTxtFile ==
    /\ pc = "for_txt_file"
    /\ unit <= Len(dirFiles)
    /\ pc' = "open_read"
    /\ ret' = "none"
    /\ content' = <<>>
    /\ i' = 1
    /\ parts' = NoParts
    /\ result' = EmptyResult
    /\ outFile' = NoFile
    /\ writes' = 0
    /\ UNCHANGED <<dirFiles, unit, stats, exc>>

\* with open(txt_path, "r") as f: content = f.read()
ReadFile ==
    /\ pc = "open_read"
    /\ content' = dirFiles[unit]
    /\ pc' = "scan"
    /\ UNCHANGED <<dirFiles, unit, stats, ret, exc, i, parts, result, outFile, writes>>

\* the open or the read raises OSError; nothing up to process_directory catches it
ReadFileFails ==
    /\ pc = "open_read"
    /\ exc' = "OSError"
    /\ pc' = "crashed"
    /\ UNCHANGED <<dirFiles, unit, stats, ret, content, i, parts, result, outFile, writes>>

\* one pass of the loop over the lines; an exception of the body is not caught
ScanStep ==
    /\ pc = "scan"
    /\ i <= Len(content)
    /\ LET acc == ScanLine(parts, content[i]) IN
         IF acc.exc # "none"
         THEN /\ exc' = acc.exc
              /\ pc' = "crashed"
              /\ UNCHANGED <<parts, i>>
         ELSE /\ parts' = acc
              /\ i' = i + 1
              /\ UNCHANGED <<exc, pc>>
    /\ UNCHANGED <<dirFiles, unit, stats, ret, content, result, outFile, writes>>

\* after the loop: the two joins, tool_use, then message
Assemble ==
    /\ pc = "scan"
    /\ i > Len(content)
    /\ LET made == AssembleRecord(parts, content) IN
         IF made.exc = "none"
         THEN /\ result' = made.record
              /\ pc' = "write_json"
              /\ UNCHANGED exc
         ELSE /\ exc' = made.exc
              /\ pc' = "crashed"
              /\ UNCHANGED result
    /\ UNCHANGED <<dirFiles, unit, stats, ret, content, i, parts, outFile, writes>>

\* extract_sse_to_json: with open(json_path, "w") as f: json.dump(result, f); return result
WriteJson ==
    /\ pc = "write_json"
    /\ outFile' = [exists |-> TRUE, record |-> result]
    /\ writes' = writes + 1
    /\ pc' = "write_again"
    /\ UNCHANGED <<dirFiles, unit, stats, ret, exc, content, i, parts, result>>

\* that open or dump raises OSError, outside every try
WriteJsonFails ==
    /\ pc = "write_json"
    /\ exc' = "OSError"
    /\ pc' = "crashed"
    /\ UNCHANGED <<dirFiles, unit, stats, ret, content, i, parts, result, outFile, writes>>

\* process_txt_file: try: with open(json_path, "w") as f: json.dump(content, f); return True
WriteAgain ==
    /\ pc = "write_again"
    /\ outFile' = [exists |-> TRUE, record |-> result]
    /\ writes' = writes + 1
    /\ ret' = "True"
    /\ pc' = "count"
    /\ UNCHANGED <<dirFiles, unit, stats, exc, content, i, parts, result>>

\* process_txt_file: except Exception: return False
WriteAgainFails ==
    /\ pc = "write_again"
    /\ ret' = "False"
    /\ pc' = "count"
    /\ UNCHANGED <<dirFiles, unit, stats, exc, content, i, parts, result, outFile, writes>>

\* process_directory: stats["success"] += 1 or stats["failure"] += 1, next file
Count ==
    /\ pc = "count"
    /\ stats' = IF ret = "True"
                THEN [stats EXCEPT !.success = @ + 1]
                ELSE [stats EXCEPT !.failure = @ + 1]
    /\ unit' = unit + 1
    /\ pc' = "for_txt_file"
    /\ UNCHANGED <<dirFiles, ret, exc, content, i, parts, result, outFile, writes>>

\* process_directory: return stats
ReturnStats ==
    /\ pc = "for_txt_file"
    /\ unit > Len(dirFiles)
    /\ pc' = "returned"
    /\ UNCHANGED <<dirFiles, unit, stats, ret, exc, content, i, parts, result, outFile, writes>>

Next ==
    \/ CallProcessTxtFile /\ UNCHANGED cdVars
    \/ ReadFile /\ UNCHANGED cdVars
    \/ ReadFileFails /\ UNCHANGED cdVars
    \/ ScanStep /\ UNCHANGED cdVars
    \/ Assemble /\ UNCHANGED cdVars
    \/ WriteJson /\ UNCHANGED cdVars
    \/ WriteJsonFails /\ UNCHANGED cdVars
    \/ WriteAgain /\ UNCHANGED cdVars
    \/ WriteAgainFails /\ UNCHANGED cdVars
    \/ Count /\ UNCHANGED cdVars
    \/ ReturnStats /\ UNCHANGED cdVars

Spec == Init /\ [][Next]_vars

(***************************************************************************)
(* A call of consolidate_deltas.                                           *)
(***************************************************************************)
FilesIdle ==
    /\ dirFiles = <<>>
    /\ unit = 1
    /\ stats = [success |-> 0, failure |-> 0]
    /\ pc = "idle"
    /\ ret = "none"
    /\ exc = "none"
    /\ content = <<>>
    /\ i = 1
    /\ parts = NoParts
    /\ result = EmptyResult
    /\ outFile = NoFile
    /\ writes = 0

InitCD ==
    /\ FilesIdle
    /\ parsed_entries \in SeqsUpTo(Entries, MaxEntries)
    /\ cd_pc = "group"
    /\ cd_i = 1
    /\ groups = <<>>
    /\ cd_result = <<>>
    /\ cd_exc = "none"

\* for entry in parsed_entries: one pass
CDGroupStep ==
    /\ cd_pc = "group"
    /\ cd_i <= Len(parsed_entries)
    /\ LET st == GroupEntry([groups |-> groups, exc |-> "none"], parsed_entries[cd_i]) IN
         IF st.exc # "none"
         THEN /\ cd_exc' = st.exc
              /\ cd_pc' = "raised"
              /\ UNCHANGED <<groups, cd_i>>
         ELSE /\ groups' = st.groups
              /\ cd_i' = cd_i + 1
              /\ UNCHANGED <<cd_exc, cd_pc>>
    /\ UNCHANGED <<parsed_entries, cd_result>>

\* sorted(groups.items(), reverse=True), evaluated once before the second loop
CDSort ==
    /\ cd_pc = "group"
    /\ cd_i > Len(parsed_entries)
    /\ IF Sortable(groups)
       THEN /\ groups' = SortedReverse(groups)
            /\ cd_pc' = "emit"
            /\ cd_i' = 1
            /\ UNCHANGED cd_exc
       ELSE /\ cd_exc' = "TypeError"
            /\ cd_pc' = "raised"
            /\ UNCHANGED <<groups, cd_i>>
    /\ UNCHANGED <<parsed_entries, cd_result>>

\* for (delta_type, index), deltas in ...: one pass
CDEmitStep ==
    /\ cd_pc = "emit"
    /\ cd_i <= Len(groups)
    /\ LET st == EmitGroup([result |-> cd_result, exc |-> "none"], groups[cd_i]) IN
         IF st.exc # "none"
         THEN /\ cd_exc' = st.exc
              /\ cd_pc' = "raised"
              /\ UNCHANGED <<cd_result, cd_i>>
         ELSE /\ cd_result' = st.result
              /\ cd_i' = cd_i + 1
              /\ UNCHANGED <<cd_exc, cd_pc>>
    /\ UNCHANGED <<parsed_entries, groups>>

\* return result
CDReturn ==
    /\ cd_pc = "emit"
    /\ cd_i > Len(groups)
    /\ cd_pc' = "returned"
    /\ UNCHANGED <<parsed_entries, cd_i, groups, cd_result, cd_exc>>

NextCD ==
    \/ CDGroupStep /\ UNCHANGED fileVars
    \/ CDSort /\ UNCHANGED fileVars
    \/ CDEmitStep /\ UNCHANGED fileVars
    \/ CDReturn /\ UNCHANGED fileVars

SpecCD == InitCD /\ [][NextCD]_vars

\* the stepwise call returns what the function computes
CDStepsAgree ==
    /\ cd_pc = "returned" => consolidate_deltas(parsed_entries) = [result |-> cd_result, exc |-> "none"]
    /\ cd_pc = "raised" => consolidate_deltas(parsed_entries) = [result |-> <<>>, exc |-> cd_exc]

(***************************************************************************)
(* What the properties speak of.                                           *)
(***************************************************************************)
\* extract_sse_to_json has assembled the record of the current unit
RecordMade == pc \in {"write_json", "write_again", "count"}

\* a line the scan accepts as a content_block_delta frame with a delta object
IsFrame(line) ==
    /\ line.prefix = "data"
    /\ line.doc.json = "obj"
    /\ line.doc.type = JStr("content_block_delta")
    /\ line.doc.delta.kind = "obj"

IsFrameOf(line, t) == IsFrame(line) /\ line.doc.delta.type = JStr(t)

IsTextFrame(line) == IsFrameOf(line, "text_delta")
IsThinkingFrame(line) == IsFrameOf(line, "thinking_delta")
IsToolFrame(line) == IsFrameOf(line, "input_json_delta")

\* a request body: parses, and holds messages and model
IsRequest(line) ==
    /\ line.prefix = "brace"
    /\ line.doc.json = "obj"
    /\ line.doc.hasMessages
    /\ line.doc.hasModel

SameIndex(frames) ==
    \A a, b \in 1..Len(frames) : frames[a].doc.index = frames[b].doc.index

StrOf(member) == IF member.has /\ member.isStr THEN member.s ELSE ""

RECURSIVE TextsInOrder(_)
TextsInOrder(frames) ==
    IF frames = <<>> THEN ""
    ELSE StrOf(Head(frames).doc.delta.text) \o TextsInOrder(Tail(frames))

RECURSIVE ThinkingInOrder(_)
ThinkingInOrder(frames) ==
    IF frames = <<>> THEN ""
    ELSE StrOf(Head(frames).doc.delta.thinking) \o ThinkingInOrder(Tail(frames))

RemoveAt(seq, p) == [k \in 1..(Len(seq) - 1) |-> IF k < p THEN seq[k] ELSE seq[k + 1]]

(***************************************************************************)
(* Properties.                                                             *)
(***************************************************************************)
\* C1: the record's text is the text fields of the accepted text_delta frames of one
\* index, concatenated in the order of their lines, and thinking likewise for the
\* thinking_delta frames: nothing dropped, duplicated or reordered.
C1_OrderPreservation ==
    RecordMade =>
        LET texts == SelectSeq(content, IsTextFrame)
            thoughts == SelectSeq(content, IsThinkingFrame)
        IN  /\ SameIndex(texts) => result.text = TextsInOrder(texts)
            /\ SameIndex(thoughts) => result.thinking = ThinkingInOrder(thoughts)

\* "He" then "llo" at index 0, a thinking frame between them, give "Hello"
C1_Witness ==
    /\ pc = "count"
    /\ content = <<L_textHe, L_thinkHm, L_textLlo>>
    /\ result.text = "Hello"
    /\ outFile.record.text = "Hello"

\* C2: message is the messages value of the first line that parses with both a
\* messages key and a model key; later request lines are ignored, earlier lines that
\* do not parse or lack a key are skipped without error, and with no such line
\* message is the empty list.
C2_FirstMatch ==
    /\ RecordMade =>
          IF \E k \in 1..Len(content) : IsRequest(content[k])
          THEN LET first == CHOOSE k \in 1..Len(content) :
                                /\ IsRequest(content[k])
                                /\ \A j \in 1..(k - 1) : ~IsRequest(content[j])
               IN  result.message = content[first].doc.messages
          ELSE result.message = <<>>
    /\ (\A k \in 1..Len(content) : content[k].prefix # "data")
          => exc \notin {"AttributeError", "TypeError"}

\* a line without model, then two request bodies: the first one's messages
C2_Witness ==
    /\ pc = "count"
    /\ content = <<L_noModel, L_req1, L_req2>>
    /\ result.message = <<"m1">>

\* C3: the scan and the consolidation never raise on malformed input: a data line
\* that is malformed JSON, is no object, or whose delta is no object or whose payload
\* is no string is skipped, and the lines after it still reach the record.
C3_NeverFatal == exc \notin {"AttributeError", "TypeError"}

\* C4: an input that cannot be read or an output that cannot be written makes
\* process_txt_file return False, never raise; process_directory counts the unit
\* under failure and goes on with the remaining files.
C4_IOFailureIsResult == ~(pc = "crashed" /\ exc = "OSError")

\* the parsed entries of the frames of a log
FrameDocs(lines) ==
    LET frames == SelectSeq(lines, IsFrame) IN [k \in 1..Len(frames) |-> frames[k].doc]

RECURSIVE ParsedFragments(_)
ParsedFragments(frames) ==
    IF frames = <<>> THEN <<>>
    ELSE LET pj == Head(frames).doc.delta.partial_json
             parsed == IF pj.has /\ pj.isStr THEN Loads(pj.s) ELSE NoJson
         IN  (IF parsed.ok THEN <<parsed>> ELSE <<>>) \o ParsedFragments(Tail(frames))

IsToolEntry(e) == e.type = "tool_use"
IsTextEntry(e) == e.type = "text"
IsThinkingEntry(e) == e.type = "thinking"

\* C5: input_json_delta fragments of one index are never merged.  Eager-parse mode:
\* tool_use is, in arrival order, the parsed values of the fragments whose
\* partial_json parses as standalone JSON, one entry each, the others dropped.  Raw
\* mode: one tool_use entry per fragment, carrying its delta unchanged.
C5_ToolFragments ==
    RecordMade =>
        LET tools == SelectSeq(content, IsToolFrame)
            raw == consolidate_deltas(FrameDocs(content))
            emitted == SelectSeq(raw.result, IsToolEntry)
        IN  /\ result.tool_use = ParsedFragments(tools)
            /\ (raw.exc = "none" /\ SameIndex(tools)) =>
                  emitted = [k \in 1..Len(tools) |-> Consolidated("tool_use", "", tools[k].doc.delta)]

\* C6: text is built from text_delta fragments only and thinking from thinking_delta
\* fragments only: taking a thinking_delta frame out of the log changes neither text
\* nor tool_use, taking a text_delta frame out changes neither thinking nor tool_use,
\* whatever indices the frames carry; the groups of consolidate_deltas likewise.
C6_ChannelIsolation ==
    RecordMade =>
        \A p \in 1..Len(content) :
            LET less == extract_sse_to_json(RemoveAt(content, p))
                raw == consolidate_deltas(FrameDocs(content))
                rawLess == consolidate_deltas(FrameDocs(RemoveAt(content, p)))
            IN  /\ IsThinkingFrame(content[p]) =>
                      /\ less.exc = "none"
                      /\ less.record.text = result.text
                      /\ less.record.tool_use = result.tool_use
                      /\ raw.exc = "none" =>
                            /\ rawLess.exc = "none"
                            /\ SelectSeq(rawLess.result, IsTextEntry) = SelectSeq(raw.result, IsTextEntry)
                            /\ SelectSeq(rawLess.result, IsToolEntry) = SelectSeq(raw.result, IsToolEntry)
                /\ IsTextFrame(content[p]) =>
                      /\ less.exc = "none"
                      /\ less.record.thinking = result.thinking
                      /\ less.record.tool_use = result.tool_use
                      /\ raw.exc = "none" =>
                            /\ rawLess.exc = "none"
                            /\ SelectSeq(rawLess.result, IsThinkingEntry) = SelectSeq(raw.result, IsThinkingEntry)
                            /\ SelectSeq(rawLess.result, IsToolEntry) = SelectSeq(raw.result, IsToolEntry)

\* a thinking frame between two text frames of its index and a record without its text
C6_Witness ==
    /\ pc = "count"
    /\ content = <<L_textHe, L_thinkHm, L_toolA>>
    /\ result.text = "He"
    /\ result.thinking = "Hm"
    /\ Len(result.tool_use) = 1

\* a log without a line that is a request body or a content_block_delta frame
OnlyNoise(lines) == \A k \in 1..Len(lines) : ~IsRequest(lines[k]) /\ ~IsFrame(lines[k])

\* C7: a log with no valid request-body line and no valid content_block_delta line
\* yields exactly the record {message: [], thinking: "", text: "", tool_use: []},
\* and no error.
C7_NoiseGivesEmptyRecord ==
    (pc \notin {"for_txt_file", "open_read"} /\ OnlyNoise(content)) =>
        /\ exc \notin {"AttributeError", "TypeError"}
        /\ RecordMade => result = EmptyResult

\* an entry that is a frame with a delta.type other than the three recognized ones
IsUnknownType(entry) ==
    /\ entry.json = "obj"
    /\ entry.delta.kind = "obj"
    /\ entry.delta.type.has
    /\ entry.delta.type \notin {JStr("text_delta"), JStr("thinking_delta"), JStr("input_json_delta")}

\* C8: a frame whose delta.type is none of text_delta, thinking_delta,
\* input_json_delta leaves the outcome exactly as it would be without the frame,
\* raises nothing and does not stop the frames after it (here: consolidate_deltas).
C8_UnknownTypeIgnored ==
    cd_pc \in {"returned", "raised"} =>
        \A p \in 1..Len(parsed_entries) :
            IsUnknownType(parsed_entries[p]) =>
                consolidate_deltas(parsed_entries) = consolidate_deltas(RemoveAt(parsed_entries, p))

\* C9: processing one unit writes its output JSON file exactly once; the record is
\* not written again after that write.
C9_WriteOnce ==
    /\ writes <= 1
    /\ (pc = "count" /\ ret = "True") => writes = 1

RECURSIVE ConcatContents(_)
ConcatContents(entries) ==
    IF entries = <<>> THEN "" ELSE Head(entries).content \o ConcatContents(Tail(entries))

Reverse(seq) == [k \in 1..Len(seq) |-> seq[Len(seq) + 1 - k]]

\* C10: with text_delta (thinking_delta) fragments of two indices interleaved, text
\* (thinking) is formed group by group: it is the concatenation of the per-group
\* strings consolidate_deltas builds for the same frames, the groups in either order.
C10_GroupThenFold ==
    RecordMade =>
        LET raw == consolidate_deltas(FrameDocs(content))
            texts == SelectSeq(raw.result, IsTextEntry)
            thoughts == SelectSeq(raw.result, IsThinkingEntry)
        IN  raw.exc = "none" =>
                /\ result.text \in {ConcatContents(texts), ConcatContents(Reverse(texts))}
                /\ result.thinking \in {ConcatContents(thoughts), ConcatContents(Reverse(thoughts))}

\* a frame of a recognized delta type whose delta lacks that type's payload field
LacksPayload(line) ==
    \/ IsTextFrame(line) /\ ~line.doc.delta.text.has
    \/ IsThinkingFrame(line) /\ ~line.doc.delta.thinking.has
    \/ IsToolFrame(line) /\ ~line.doc.delta.partial_json.has

\* C11: a content_block_delta frame of a recognized type that lacks its payload field
\* (text, thinking or partial_json) contributes nothing to the record: text and
\* thinking are as without the frame and tool_use gets no entry for it, in the
\* record of extract_sse_to_json and in the list of consolidate_deltas.
C11_MissingPayloadDiscarded ==
    RecordMade =>
        \A p \in 1..Len(content) :
            LacksPayload(content[p]) =>
                LET less == extract_sse_to_json(RemoveAt(content, p))
                    raw == consolidate_deltas(FrameDocs(content))
                    rawLess == consolidate_deltas(FrameDocs(RemoveAt(content, p)))
                IN  /\ less.exc = "none"
                    /\ less.record.text = result.text
                    /\ less.record.thinking = result.thinking
                    /\ less.record.tool_use = result.tool_use
                    /\ raw.exc = "none" =>
                          SelectSeq(rawLess.result, IsToolEntry) = SelectSeq(raw.result, IsToolEntry)

====
